---- MODULE Spec2Model ----
(***************************************************************************)
(* Model of src/app.js: the dinosaur infographic.                          *)
(*                                                                         *)
(* JavaScript strings are TLA+ strings (template literals are \o),         *)
(* integers print with ToString, a plain object is a function from its own *)
(* property names to values paired with the properties it inherits, and a  *)
(* value of Math.random() is a pair <<k, n>> standing for the number k/n   *)
(* of [0,1).  The markup of a tile is kept as the element tree the         *)
(* template of generateTileHTML describes: the h3 text, the img attributes *)
(* and the sequence of p elements (none or one).  The grid is the sequence *)
(* of its child elements.                                                  *)
(***************************************************************************)
EXTENDS Integers, Sequences, FiniteSets, TLC

VARIABLES
    pc,       \* where the page is: "load", "failed", "ready", "shown"
    data,     \* data.Dinos, the raw records handed to the script
    dinos,    \* the array filled at app.js:225-228
    form,     \* the values typed in the form
    formShown,\* display of #dino-compare
    human,    \* the Human built by showTiles (<<>> before it is built)
    grid,     \* children of #grid
    call,     \* arguments of the function under test (harness specifications)
    ret       \* what the function under test returned

vars == <<pc, data, dinos, form, formShown, human, grid, call, ret>>

----------------------------------------------------------------------------
(* Bounds of the model *)

\* weights range over 1..MaxWeight
MaxWeight == 8
\* heights (inches) range over 1..MaxHeight
MaxHeight == 8
\* Math.random() yields k/RandGrid, k in 0..RandGrid-1, when one tile is built
RandGrid == 60
\* Math.random() yields k/RenderGrid when the nine tiles are built together
RenderGrid == 2

----------------------------------------------------------------------------
(* JavaScript values *)

Undefined == ""

Falsy(v) == v = ""

\* Math.round of the non-negative rational n/d: floor(n/d + 1/2)
MathRound(n, d) == (2 * n + d) \div (2 * d)

\* (n/d).toFixed(2) for a non-negative rational n/d
ToFixed2(n, d) ==
    LET q == (200 * n + d) \div (2 * d)
    IN  ToString(q \div 100) \o "." \o ToString((q % 100) \div 10) \o ToString(q % 10)

\* The values Math.random() can return at resolution n
Draws(n) == { <<k, n>> : k \in 0..(n - 1) }

\* A plain object: its own properties and the ones found on its prototype
Obj(own, proto) == [own |-> own, proto |-> proto]

HasOwnProperty(o, name) == name \in DOMAIN o.own

\* o[name]
Get(o, name) ==
    IF name \in DOMAIN o.own THEN o.own[name]
    ELSE IF name \in DOMAIN o.proto THEN o.proto[name]
    ELSE Undefined

\* const {a, b, ...rest} = o: rest holds the own properties not named
Rest(o, names) ==
    Obj([n \in (DOMAIN o.own) \ names |-> o.own[n]], <<>>)

----------------------------------------------------------------------------
(* Entities: app.js:1-78 *)

EXPECTED_PROPERTIES == <<"species", "weight", "height", "diet", "where", "when", "fact">>

Animal(properties) ==
    [weight |-> Get(properties, "weight"),
     height |-> Get(properties, "height"),
     diet   |-> Get(properties, "diet")]

Human(properties) ==
    LET rest == Rest(properties, {"name"})
        a    == Animal(rest)
    IN  [weight |-> a.weight, height |-> a.height, diet |-> a.diet,
         name |-> Get(properties, "name")]

\* The forEach of Dino from index i on: the index of the first expected
\* property that is not an own property, 0 when the loop runs to its end
RECURSIVE FirstMissing(_, _)
FirstMissing(properties, i) ==
    IF i > Len(EXPECTED_PROPERTIES) THEN 0
    ELSE IF ~HasOwnProperty(properties, EXPECTED_PROPERTIES[i]) THEN i
    ELSE FirstMissing(properties, i + 1)

DinoUsingIn(properties) ==
    LET seen == Obj([n \in (DOMAIN properties.own) \cup (DOMAIN properties.proto) |->
                        Get(properties, n)], <<>>)
        m    == FirstMissing(seen, 1)
    IN  IF m # 0
        THEN [error |-> "Missing required Dinosaur property: " \o EXPECTED_PROPERTIES[m]]
        ELSE [value |-> [weight  |-> Get(properties, "weight"),
                         height  |-> Get(properties, "height"),
                         diet    |-> Get(properties, "diet"),
                         species |-> Get(properties, "species"),
                         where   |-> Get(properties, "where"),
                         when    |-> Get(properties, "when"),
                         fact    |-> Get(properties, "fact")]]

\* Dino(properties): [error |-> message] when it throws, [value |-> dino] else
Dino(properties) ==
    LET m == FirstMissing(properties, 1)
    IN  IF m # 0
        THEN [error |-> "Missing required Dinosaur property: " \o EXPECTED_PROPERTIES[m]]
        ELSE LET rest == Rest(properties, {"species", "where", "when", "fact"})
                 a    == Animal(rest)
             IN  [value |-> [weight  |-> a.weight,
                             height  |-> a.height,
                             diet    |-> a.diet,
                             species |-> Get(properties, "species"),
                             where   |-> Get(properties, "where"),
                             when    |-> Get(properties, "when"),
                             fact    |-> Get(properties, "fact")]]

Threw(r) == "error" \in DOMAIN r

----------------------------------------------------------------------------
(* Comparators: app.js:88-142.  self is `this`, animal the argument. *)

CompareWeightsOwnDenominator(self, animal) ==
    LET diff == animal.weight - self.weight
    IN  IF diff > 0
        THEN "At " \o ToString(self.weight) \o " lbs, I am about " \o
             ToString(MathRound(100 * (animal.weight - self.weight), animal.weight)) \o "% " \o
             "lighter than you"
        ELSE IF diff < 0
        THEN "At " \o ToString(self.weight) \o " lbs, I am about " \o
             ToString(MathRound(100 * (self.weight - animal.weight), self.weight)) \o "% " \o
             "heavier than you"
        ELSE "We have the exact same weight!"

CompareWeights(self, animal) ==
    LET diff == animal.weight - self.weight
    IN  IF diff > 0
        THEN "At " \o ToString(self.weight) \o " lbs, I am about " \o
             ToString(MathRound(100 * (animal.weight - self.weight), animal.weight)) \o "% " \o
             "lighter than you"
        ELSE IF diff < 0
        THEN "At " \o ToString(self.weight) \o " lbs, I am about " \o
             ToString(MathRound(100 * (self.weight - animal.weight), animal.weight)) \o "% " \o
             "heavier than you"
        ELSE "We have the exact same weight!"

CompareHeightsOwnDenominator(self, animal) ==
    LET diff == animal.height - self.height
    IN  IF diff > 0
        THEN "At " \o ToFixed2(self.height, 12) \o " feet, I am about " \o
             ToString(MathRound(100 * (animal.height - self.height), animal.height)) \o "% " \o
             "smaller than you"
        ELSE IF diff < 0
        THEN "At " \o ToFixed2(self.height, 12) \o " feet, I am about " \o
             ToString(MathRound(100 * (self.height - animal.height), self.height)) \o "% " \o
             "taller than you"
        ELSE "We have the exact same height!"

CompareHeights(self, animal) ==
    LET diff == animal.height - self.height
    IN  IF diff > 0
        THEN "At " \o ToFixed2(self.height, 12) \o " feet, I am about " \o
             ToString(MathRound(100 * (animal.height - self.height), animal.height)) \o "% " \o
             "smaller than you"
        ELSE IF diff < 0
        THEN "At " \o ToFixed2(self.height, 12) \o " feet, I am about " \o
             ToString(MathRound(100 * (self.height - animal.height), animal.height)) \o "% " \o
             "taller than you"
        ELSE "We have the exact same height!"

\* The four conditions of compareDiet, in the order they are tested
DietCond1(self, animal) == self.diet # "herbivore" /\ animal.diet = "herbivore"

DietCond2(self, animal) == self.diet = "herbivore" /\ animal.diet # "herbivore"

DietCond3IgnoringAnimal(self, animal) == self.diet # "carnivore"

DietCond3(self, animal) == self.diet # "carnivore" /\ animal.diet = "carnivore"

DietCond4(self, animal) == self.diet = "carnivore" /\ animal.diet # "carnivore"

DietMsg1 == "Really, you don't eat meat ?"
DietMsg2 == "I think you shouldn't eat meat, you know."
DietMsg3 == "I think you should try some vegetables, you know !"
DietMsg4 == "Why do you waste your appetite on vegetables ?"
DietSame == "We like the same food !"

CompareDietWithoutCond2(self, animal) ==
    IF DietCond1(self, animal) THEN DietMsg1
    ELSE IF DietCond3(self, animal) THEN DietMsg3
    ELSE IF DietCond4(self, animal) THEN DietMsg4
    ELSE DietSame

CompareDietWithoutCond4(self, animal) ==
    IF DietCond1(self, animal) THEN DietMsg1
    ELSE IF DietCond2(self, animal) THEN DietMsg2
    ELSE IF DietCond3(self, animal) THEN DietMsg3
    ELSE DietSame

CompareDiet(self, animal) ==
    IF DietCond1(self, animal) THEN DietMsg1
    ELSE IF DietCond2(self, animal) THEN DietMsg2
    ELSE IF DietCond3(self, animal) THEN DietMsg3
    ELSE IF DietCond4(self, animal) THEN DietMsg4
    ELSE DietSame

----------------------------------------------------------------------------
(* Tiles: app.js:153-204 *)

\* The element generateTileHTML writes: <div class="grid-item"> with an h3,
\* an img and, when fact is truthy, one p
GenerateTileHTML(caption, fact, image) ==
    LET image1 == IF Falsy(image) THEN caption ELSE image
    IN  [h3  |-> caption,
         src |-> "images/" \o image1 \o ".png",
         alt |-> caption \o " image",
         p   |-> IF Falsy(fact) THEN <<>> ELSE <<fact>>]

\* Math.round(Math.random() * 5), as an index into a sequence counted from 1
FactIndex(r) == MathRound(5 * r[1], r[2]) + 1

\* The array `facts` with the comparators called on the human
FactsHumanAsThis(h, other) ==
    << "Location: " \o other.where,
       "When I lived: " \o other.when,
       other.fact,
       CompareDiet(h, other),
       CompareHeights(h, other),
       CompareWeights(h, other) >>

\* The array `facts` of getTileHTML (h is its parameter human)
Facts(h, other) ==
    << "Location: " \o other.where,
       "When I lived: " \o other.when,
       other.fact,
       CompareDiet(other, h),
       CompareHeights(other, h),
       CompareWeights(other, h) >>

\* getTileHTML(human) or getTileHTML(human, other), r the value Math.random()
\* returns if it is called.  html is the value returned; compared lists the
\* comparators the call ran.
GetTileHTML(arguments, r) ==
    IF Len(arguments) # 2
    THEN [html |-> GenerateTileHTML(arguments[1].name, "", "human"), compared |-> <<>>]
    ELSE IF arguments[2].species = "Pigeon"
    THEN [html |-> GenerateTileHTML("Pigeon", arguments[2].fact, Undefined), compared |-> <<>>]
    ELSE [html |-> GenerateTileHTML(arguments[2].species,
                                    Facts(arguments[1], arguments[2])[FactIndex(r)],
                                    Undefined),
          compared |-> <<"compareDiet", "compareHeights", "compareWeights">>]

\* addTiles(h) with the human tile appended after the eight dinosaurs
AddTilesHumanLast(g, h, ds, rs) ==
    LET all == [i \in 1..8 |-> GetTileHTML(<<h, ds[i]>>, rs[i]).html]
    IN  [grid |-> g \o all \o <<GetTileHTML(<<h>>, rs[1]).html>>, dinos |-> ds, human |-> h]

\* addTiles(h) taking each dinosaur off the array with dinos.shift()
AddTilesShifting(g, h, ds, rs) ==
    LET first  == [i \in 1..4 |-> GetTileHTML(<<h, ds[i]>>, rs[i]).html]
        second == [i \in 1..4 |-> GetTileHTML(<<h, ds[i + 4]>>, rs[i + 4]).html]
    IN  [grid  |-> g \o first \o <<GetTileHTML(<<h>>, rs[1]).html>> \o second,
         dinos |-> SubSeq(ds, 9, Len(ds)),
         human |-> h]

\* addTiles(h) run on grid g with the global array ds; rs[i] is the value of
\* Math.random() for dinos[i-1].  The result is what the call leaves behind:
\* the children of #grid, the array dinos and the object h.
AddTiles(g, h, ds, rs) ==
    LET first  == [i \in 1..4 |-> GetTileHTML(<<h, ds[i]>>, rs[i]).html]
        second == [i \in 1..4 |-> GetTileHTML(<<h, ds[i + 4]>>, rs[i + 4]).html]
    IN  [grid  |-> g \o first \o <<GetTileHTML(<<h>>, rs[1]).html>> \o second,
         dinos |-> ds,
         human |-> h]

\* parseFloat(inches.value) + parseInt(feet.value) * 12
GetHumanSizeInches(f) == f.inches + f.feet * 12

----------------------------------------------------------------------------
(* The page: app.js:224-245 *)

Diets == {"herbivore", "carnivore", "omnivore"}

\* Record i of a data file of eight records, the one at pigeonAt being the
\* pigeon (none when pigeonAt = 0)
RefRecord(i, pigeonAt) ==
    Obj([species |-> IF i = pigeonAt THEN "Pigeon" ELSE "Dino" \o ToString(i),
         weight  |-> i,
         height  |-> 9 - i,
         diet    |-> IF i % 3 = 0 THEN "herbivore"
                     ELSE IF i % 3 = 1 THEN "carnivore" ELSE "omnivore",
         where   |-> "Where" \o ToString(i),
         when    |-> "When" \o ToString(i),
         fact    |-> IF i = 2 THEN "" ELSE "Fact" \o ToString(i)], <<>>)

RefData(pigeonAt) == [i \in 1..8 |-> RefRecord(i, pigeonAt)]

\* d with property name deleted from record i
Without(d, i, name) ==
    [d EXCEPT ![i] = Obj([n \in (DOMAIN d[i].own) \ {name} |-> d[i].own[n]], <<>>)]

DataSets ==
    { RefData(p) : p \in {0, 8} } \cup
    { Without(RefData(8), i, n) : i \in {1, 5, 8}, n \in {"species", "where", "fact"} }

Forms ==
    [name : {"Ann"}, feet : {0, 1}, inches : {3}, weight : {4},
     diet : {"herbivore", "omnivore"}]

\* What #grid may hold before the script runs
Existing == [h3 |-> "Existing", src |-> "images/Existing.png",
             alt |-> "Existing image", p |-> <<>>]

\* The records of data.Dinos up to and excluding the first one Dino rejects
RECURSIVE Pushed(_, _)
Pushed(d, i) ==
    IF i > Len(d) \/ Threw(Dino(d[i])) THEN <<>>
    ELSE <<Dino(d[i]).value>> \o Pushed(d, i + 1)

Init ==
    /\ pc = "load"
    /\ data \in DataSets
    /\ dinos = <<>>
    /\ form \in Forms
    /\ formShown = TRUE
    /\ human = <<>>
    /\ grid \in {<<>>, <<Existing>>}
    /\ call = <<>>
    /\ ret = <<>>

\* The script body, app.js:225-228: an exception of Dino ends the script, so
\* showTiles is never defined
Load ==
    /\ pc = "load"
    /\ dinos' = dinos \o Pushed(data, 1)
    /\ pc' = IF Len(Pushed(data, 1)) = Len(data) THEN "ready" ELSE "failed"
    /\ UNCHANGED <<data, form, formShown, human, grid, call, ret>>

\* showTiles, app.js:235-245, with the addTiles it calls
ShowTiles ==
    /\ pc = "ready"
    /\ \E rs \in [1..8 -> Draws(RenderGrid)] :
         LET h    == Human(Obj([name   |-> form.name,
                                height |-> GetHumanSizeInches(form),
                                weight |-> form.weight,
                                diet   |-> form.diet], <<>>))
             post == AddTiles(grid, h, dinos, rs)
         IN  /\ grid' = post.grid
             /\ dinos' = post.dinos
             /\ human' = <<post.human>>
    /\ formShown' = FALSE
    /\ pc' = "shown"
    /\ UNCHANGED <<data, form, call, ret>>

Next == Load \/ ShowTiles

Spec == Init /\ [][Next]_vars

----------------------------------------------------------------------------
(* Dino called on any record: the own properties are any subset of the     *)
(* expected ones and of one more, the inherited ones none, one or all.     *)

PropNames == {"species", "weight", "height", "diet", "where", "when", "fact", "colour"}

OwnValue(n) ==
    IF n = "weight" THEN 5 ELSE IF n = "height" THEN 7
    ELSE IF n = "diet" THEN "herbivore" ELSE "own " \o n

ProtoValue(n) ==
    IF n = "weight" THEN 6 ELSE IF n = "height" THEN 3
    ELSE IF n = "diet" THEN "carnivore" ELSE "inherited " \o n

Protos == { {}, {"where"}, {"species", "weight", "height", "diet", "where", "when", "fact"} }

Idle ==
    /\ pc = "idle"
    /\ data = <<>>
    /\ dinos = <<>>
    /\ form = <<>>
    /\ formShown = TRUE
    /\ human = <<>>
    /\ grid = <<>>

Page == <<pc, data, dinos, form, formShown, human, grid>>

InitDino ==
    /\ Idle
    /\ \E S \in SUBSET PropNames, P \in Protos :
         call = [properties |-> Obj([n \in S |-> OwnValue(n)], [n \in P |-> ProtoValue(n)])]
    /\ ret = <<>>

CallDino ==
    /\ ret = <<>>
    /\ ret' = <<Dino(call.properties)>>
    /\ UNCHANGED <<Page, call>>

NextDino == CallDino

SpecDino == InitDino /\ [][NextDino]_vars

----------------------------------------------------------------------------
(* The comparators called on any two animals *)

Animals == [weight : 1..MaxWeight, height : 1..MaxHeight, diet : Diets]

InitCompare ==
    /\ Idle
    /\ call \in [self : Animals, animal : Animals]
    /\ ret = <<>>

CallCompareWeights ==
    /\ ret = <<>>
    /\ ret' = <<[fn |-> "compareWeights", value |-> CompareWeights(call.self, call.animal)]>>
    /\ UNCHANGED <<Page, call>>

CallCompareHeights ==
    /\ ret = <<>>
    /\ ret' = <<[fn |-> "compareHeights", value |-> CompareHeights(call.self, call.animal)]>>
    /\ UNCHANGED <<Page, call>>

CallCompareDiet ==
    /\ ret = <<>>
    /\ ret' = <<[fn |-> "compareDiet", value |-> CompareDiet(call.self, call.animal)]>>
    /\ UNCHANGED <<Page, call>>

NextCompare == CallCompareWeights \/ CallCompareHeights \/ CallCompareDiet

SpecCompare == InitCompare /\ [][NextCompare]_vars

----------------------------------------------------------------------------
(* getTileHTML called on any human and dinosaur, with any draw *)

TileHumans ==
    [name : {"Ann"}, weight : {1, MaxWeight}, height : {1, MaxHeight}, diet : Diets]

TileDinos ==
    [species : {"Pigeon", "Triceratops"}, weight : {1, MaxWeight}, height : {1, MaxHeight},
     diet : Diets, where : {"North America"}, when : {"Late Cretaceous"},
     fact : {"", "First discovered in 1889"}]

InitTile ==
    /\ Idle
    /\ call \in [human : TileHumans, other : TileDinos]
    /\ ret = <<>>

\* getTileHTML(human, other)
CallGetTileHTML ==
    /\ ret = <<>>
    /\ \E r \in Draws(RandGrid) :
         ret' = <<[arguments |-> 2, r |-> r,
                   value |-> GetTileHTML(<<call.human, call.other>>, r)]>>
    /\ UNCHANGED <<Page, call>>

\* getTileHTML(human)
CallGetTileHTMLHuman ==
    /\ ret = <<>>
    /\ ret' = <<[arguments |-> 1, r |-> <<0, 1>>,
                 value |-> GetTileHTML(<<call.human>>, <<0, 1>>)]>>
    /\ UNCHANGED <<Page, call>>

NextTile == CallGetTileHTML \/ CallGetTileHTMLHuman

SpecTile == InitTile /\ [][NextTile]_vars

----------------------------------------------------------------------------
(* Properties *)

\* The indices of the expected properties the record does not own
MissingOwn(properties) ==
    { i \in 1..Len(EXPECTED_PROPERTIES) : EXPECTED_PROPERTIES[i] \notin DOMAIN properties.own }

\* C1: Dino checks species, weight, height, diet, where, when, fact in that
\* order as own properties of the record; if any is absent it fails with an
\* error naming the first absent one and returns no entity, and if all seven
\* are present it returns an entity made of the record's own values.
C1_DinoRejectsFirstMissing ==
    ret # <<>> =>
        LET properties == call.properties
            missing    == MissingOwn(properties)
        IN  IF missing = {}
            THEN /\ ~Threw(ret[1])
                 /\ \A i \in 1..Len(EXPECTED_PROPERTIES) :
                      ret[1].value[EXPECTED_PROPERTIES[i]] = properties.own[EXPECTED_PROPERTIES[i]]
            ELSE /\ Threw(ret[1])
                 /\ "value" \notin DOMAIN ret[1]
                 /\ \E i \in missing :
                      /\ \A j \in missing : i <= j
                      /\ ret[1].error =
                           "Missing required Dinosaur property: " \o EXPECTED_PROPERTIES[i]

\* A record that lacks where and fact as own properties and inherits where
\* has been rejected for where
C1_Witness ==
    /\ ret # <<>>
    /\ MissingOwn(call.properties) = {5, 7}
    /\ "where" \in DOMAIN call.properties.proto
    /\ Threw(ret[1])
    /\ ret[1].error = "Missing required Dinosaur property: where"

\* The integer nearest to n/d, the larger of the two at a tie
IsRoundHalfUp(p, n, d) == 2 * p * d - d <= 2 * n /\ 2 * n < 2 * p * d + d

Abs(x) == IF x < 0 THEN -x ELSE x

\* C3: compareWeights reports lighter exactly when self.weight <
\* other.weight, heavier exactly when self.weight > other.weight and the
\* exact same weight exactly when they are equal; in both unequal cases the
\* percentage is round-half-up of 100 * |other.weight - self.weight| /
\* other.weight.
C3_CompareWeightsLaw ==
    (ret # <<>> /\ ret[1].fn = "compareWeights") =>
        LET s == call.self.weight
            o == call.animal.weight
        IN  \E p \in 0..(100 * (MaxWeight + 1)) :
              /\ IsRoundHalfUp(p, 100 * Abs(o - s), o)
              /\ ret[1].value =
                   IF s < o
                   THEN "At " \o ToString(s) \o " lbs, I am about " \o ToString(p) \o
                        "% lighter than you"
                   ELSE IF s > o
                   THEN "At " \o ToString(s) \o " lbs, I am about " \o ToString(p) \o
                        "% heavier than you"
                   ELSE "We have the exact same weight!"

\* A heavier self whose percentage exceeds 100 and is rounded up
C3_Witness ==
    /\ ret # <<>>
    /\ ret[1].fn = "compareWeights"
    /\ call.self.weight = 8
    /\ call.animal.weight = 3
    /\ ret[1].value = "At 8 lbs, I am about 167% heavier than you"

\* C4: for diets that differ, swapping the arguments of compareDiet flips
\* the message within its pair: message 1 one way if and only if message 2
\* the other way, and message 3 one way if and only if message 4 the other.
C4_CompareDietSwap ==
    (ret # <<>> /\ ret[1].fn = "compareDiet" /\ call.self.diet # call.animal.diet) =>
        LET swapped == CompareDiet(call.animal, call.self)
        IN  /\ ret[1].value = DietMsg1 <=> swapped = DietMsg2
            /\ ret[1].value = DietMsg3 <=> swapped = DietMsg4

\* An omnivore has been told to try vegetables by a carnivore's counterpart
C4_Witness ==
    /\ ret # <<>>
    /\ ret[1].fn = "compareDiet"
    /\ call.self.diet = "omnivore"
    /\ call.animal.diet = "carnivore"
    /\ ret[1].value = DietMsg3
    /\ CompareDiet(call.animal, call.self) = DietMsg4

\* The conditions of compareDiet that are true of self and animal
TrueDietConds(self, animal) ==
    { i \in 1..4 : \/ i = 1 /\ DietCond1(self, animal)
                   \/ i = 2 /\ DietCond2(self, animal)
                   \/ i = 3 /\ DietCond3(self, animal)
                   \/ i = 4 /\ DietCond4(self, animal) }

\* C5 as stated: for every pair of diets at most one of the four conditions
\* of compareDiet is true.
C5_AtMostOneCondition ==
    (ret # <<>> /\ ret[1].fn = "compareDiet") =>
        Cardinality(TrueDietConds(call.self, call.animal)) <= 1

\* C5 amended: at most one of the four conditions is true unless one diet is
\* herbivore and the other carnivore; for self carnivore and other herbivore
\* exactly conditions 1 and 4 are true, for self herbivore and other
\* carnivore exactly conditions 2 and 3.
C5_ExclusiveButHerbivoreCarnivore ==
    (ret # <<>> /\ ret[1].fn = "compareDiet") =>
        LET conds == TrueDietConds(call.self, call.animal)
        IN  IF call.self.diet = "carnivore" /\ call.animal.diet = "herbivore"
            THEN conds = {1, 4}
            ELSE IF call.self.diet = "herbivore" /\ call.animal.diet = "carnivore"
            THEN conds = {2, 3}
            ELSE Cardinality(conds) <= 1

\* A carnivore has been compared with a herbivore: conditions 1 and 4 hold
C5_Witness ==
    /\ ret # <<>>
    /\ ret[1].fn = "compareDiet"
    /\ call.self.diet = "carnivore"
    /\ call.animal.diet = "herbivore"
    /\ TrueDietConds(call.self, call.animal) = {1, 4}
    /\ ret[1].value = DietMsg1

\* The number of draws that select fact i
Share(i) == Cardinality({ r \in Draws(RandGrid) : FactIndex(r) = i })

\* C6: the fact of a dinosaur tile other than the pigeon's is picked
\* uniformly among the six: the index is one of the six, and with the draws
\* spread evenly over [0,1) no index is selected by more draws than another
\* (up to the one draw by which an even split of the draws can differ).
C6_UniformFactIndex ==
    (ret # <<>> /\ ret[1].arguments = 2 /\ call.other.species # "Pigeon") =>
        /\ FactIndex(ret[1].r) \in 1..6
        /\ \A j \in 1..6 : Abs(Share(FactIndex(ret[1].r)) - Share(j)) <= 1

\* The text in the p of a tile, empty when the tile has none
Body(tile) == IF tile.p = <<>> THEN "" ELSE tile.p[1]

\* C7: the tile of dinosaur d for human h has caption d.species and, for
\* every draw, a body that is one of "Location: " d.where, "When I lived: "
\* d.when, d.fact, compareDiet, compareHeights, compareWeights of d (as this)
\* with h; for the pigeon the body is d.fact and no comparator is called.
C7_TileBodyIsCandidate ==
    (ret # <<>> /\ ret[1].arguments = 2) =>
        LET h    == call.human
            d    == call.other
            tile == ret[1].value.html
        IN  /\ tile.h3 = d.species
            /\ IF d.species = "Pigeon"
               THEN /\ Body(tile) = d.fact
                    /\ ret[1].value.compared = <<>>
               ELSE Body(tile) \in { "Location: " \o d.where,
                                     "When I lived: " \o d.when,
                                     d.fact,
                                     CompareDiet(d, h),
                                     CompareHeights(d, h),
                                     CompareWeights(d, h) }

\* A heavy dinosaur's tile shows its weight compared with a light human's
C7_Witness ==
    /\ ret # <<>>
    /\ ret[1].arguments = 2
    /\ call.other.species = "Triceratops"
    /\ call.other.weight = MaxWeight
    /\ call.human.weight = 1
    /\ FactIndex(ret[1].r) = 6
    /\ Body(ret[1].value.html) = CompareWeights(call.other, call.human)
    /\ Body(ret[1].value.html) # CompareWeights(call.human, call.other)

\* The two decimals of n/12: the hundredths nearest to it
Feet(n) ==
    LET q == CHOOSE q \in 0..(100 * n) : IsRoundHalfUp(q, 100 * n, 12)
    IN  ToString(q \div 100) \o "." \o ToString((q % 100) \div 10) \o ToString(q % 10)

C10_FallbackIffSameDiet ==
    (ret # <<>> /\ ret[1].fn = "compareDiet") =>
        (ret[1].value = DietSame <=> call.self.diet = call.animal.diet)

\* A carnivore compared with an omnivore is caught by the fourth condition
C10_Witness ==
    /\ ret # <<>>
    /\ ret[1].fn = "compareDiet"
    /\ call.self.diet = "carnivore"
    /\ call.animal.diet = "omnivore"
    /\ ret[1].value = DietMsg4

\* C2: one run of addTiles appends exactly nine tiles to the grid, in the
\* order dino0..dino3, the human tile, dino4..dino7.
C2_NineTilesHumanFifth ==
    [][(pc = "ready" /\ pc' = "shown") =>
        /\ Len(grid') = Len(grid) + 9
        /\ SubSeq(grid', 1, Len(grid)) = grid
        /\ \A i \in 1..4 : grid'[Len(grid) + i].h3 = dinos[i].species
        /\ grid'[Len(grid) + 5] =
             [h3 |-> form.name, src |-> "images/human.png",
              alt |-> form.name \o " image", p |-> <<>>]
        /\ \A i \in 5..8 : grid'[Len(grid) + i + 1].h3 = dinos[i].species]_vars

\* The nine tiles stand after what the grid held, the human's in the middle
C2_Witness ==
    /\ pc = "shown"
    /\ Len(grid) = 10
    /\ grid[1] = Existing
    /\ grid[2].h3 = "Dino1"
    /\ grid[6].h3 = "Ann"
    /\ grid[10].h3 = "Pigeon"
    /\ \A i, j \in 1..8 : dinos[i].species = dinos[j].species => i = j

\* C9: building the tiles changes no entity: after addTiles the array dinos
\* and every dinosaur in it are what they were, and the human passed in has
\* the values it was built with.
C9_TilesLeaveEntities ==
    [][(pc = "ready" /\ pc' = "shown") =>
        /\ dinos' = dinos
        /\ human' = <<[name   |-> form.name,
                       height |-> form.inches + 12 * form.feet,
                       weight |-> form.weight,
                       diet   |-> form.diet]>>]_vars

\* The tiles are shown, the grid has grown and the eight dinosaurs are there
C9_Witness ==
    /\ pc = "shown"
    /\ Len(grid) >= 9
    /\ Len(dinos) = 8
    /\ \A i \in 1..8 : dinos[i] = Dino(data[i]).value
    /\ human[1].height = 15

====
